---- MODULE Spec2Model ----
(***************************************************************************)
(* One client session of the Deepgram WebSocket proxy: the connection      *)
(* handler of setupWebSocketProxy, in the two revisions the repository     *)
(* holds (src/server/proxy.js and the revision that sanitizes events),     *)
(* together with the per-socket error handler index.js installs.           *)
(*                                                                         *)
(* Every action is one callback of the Node.js event loop, run to          *)
(* completion together with the promise continuations (microtasks) it      *)
(* releases.                                                               *)
(***************************************************************************)
EXTENDS Naturals, Sequences, FiniteSets

VARIABLES
    variant,        \* which revision of the proxy runs: "proxy" or "sanitized"
    dgConnection,   \* connectionState.dgConnection: 0 is null, else a connection id
    isAlive,        \* connectionState.isAlive
    isClosing,      \* connectionState.isClosing
    registered,     \* activeConnections.has(clientId)
    readyState,     \* clientWs.readyState
    pingInterval,   \* TRUE while the keepalive interval is scheduled
    phase,          \* position of the connection handler around its await
    conns,          \* the upstream connections created for this session
    nConns,         \* how many upstream connections were created
    ev,             \* the callback that ran last
    evConn,         \* the upstream connection that callback belongs to (0: none)
    toClient,       \* what the last callback sent to the client, in order
    mediaTo,        \* the upstream connection the last callback sent media to (0: none)
    wsCloseCalled,  \* the last callback called clientWs.close()
    sendWhileClosing, \* the last callback sent something while isClosing was set
    sendFailed,     \* dgConnection.send(data) threw in the last callback
    sanFailed,      \* sanitizeEventData threw in the last callback
    settled,        \* how the last callback settled a connection's promise: "none", "resolved", "rejected"
    teardownRuns,   \* invocations of terminateConnection that executed a teardown step (saturates at 2)
    creditFinal,    \* 'credit_update' events with isClosed = true emitted (saturates at 2)
    ticked,         \* the keepalive interval has fired at least once
    pongSinceTick,  \* a pong arrived since the previous tick
    keyConfig,      \* where a Deepgram key is configured: externalConfig.deepgram.key and process.env.DEEPGRAM_API_KEY
    payload,        \* the data of the upstream event being forwarded
    forwarded,      \* the event kind handled and what its handler passed to sendToClient
    DEBUG_MODE,     \* process.env.DEBUG_MODE === 'true'
    requests,       \* the upgrade requests: how far the upgrade handler of each has got
    update,         \* the credit_update handler: idle, or awaiting a ledger call
    shutdown,       \* the SIGTERM handler: not run, awaiting flushAllCredits, done
    calls,          \* the calls made to the identity provider, the ledger and the server by this callback
    sessions,       \* the connection handlers of one server: the closure state of each
    clientId,       \* the clientId each connection handler drew (0: not accepted yet)
    activeConnections, \* the keys of the activeConnections Map
    listening,      \* the HTTP server accepts connections (server.close() not called)
    actor           \* the session whose callback ran last (0: none of them)

sessionVars == <<variant, dgConnection, isAlive, isClosing, registered, readyState,
                 pingInterval, phase, conns, nConns, ev, evConn, toClient, mediaTo,
                 wsCloseCalled, sendWhileClosing, sendFailed, sanFailed, settled,
                 teardownRuns, creditFinal, ticked, pongSinceTick>>

sanitizeVars == <<keyConfig, payload, forwarded>>

admissionVars == <<DEBUG_MODE, requests, update, shutdown, calls>>

registryVars == <<sessions, clientId, activeConnections, listening, actor>>

vars == <<sessionVars, sanitizeVars, admissionVars, registryVars>>

\* Upstream connections one session may create (the first one is the startup connection).
MaxConns == 3

Variants == {"proxy", "sanitized"}
ConnIds == 1..MaxConns
\* client frames: {"type":"stop"}, a JSON object with another type or none,
\* the JSON text null, and audio bytes
Frames == {"stop", "start", "null", "media"}
DataEvents == {"Transcript"}

Sat2(n) == IF n >= 2 THEN 2 ELSE n + 1

\* setTimeout(..., 10000) of initializeDeepgramConnection
ConnectTimeoutMs == 10000
\* setInterval(..., 30000) of the keepalive
PingIntervalMs == 30000

\* Timers fire in the order of their expiry. The startup connect timeout is armed
\* together with the keepalive interval, a later one at any time between two ticks:
\* the number of keepalive ticks that can come before an armed connect timeout fires.
StartupTicks == ConnectTimeoutMs \div PingIntervalMs
ReinitTicks == (ConnectTimeoutMs + PingIntervalMs - 1) \div PingIntervalMs

\* overtaken: while the frame that started this connection waits for it, a
\* frame that arrived later was sent upstream; timedOut: its connect timeout fired
NoConn == [status |-> "none", pending |-> FALSE, timer |-> FALSE,
           ticksLeft |-> 0, openSeen |-> FALSE, overtaken |-> FALSE,
           timedOut |-> FALSE]

\* deepgram.listen.live(...) inside a fresh promise with its connect timeout armed
NewConn(n) == [status |-> "connecting", pending |-> TRUE, timer |-> TRUE,
               ticksLeft |-> n, openSeen |-> FALSE, overtaken |-> FALSE,
               timedOut |-> FALSE]

\* clearTimeout(timeoutId) of connection c, or the timeout having fired
clearTimeout(s, c) == [s EXCEPT !.conns[c].timer = FALSE, !.conns[c].ticksLeft = 0]

\* one keepalive period passes for the connect timeouts that are armed
Elapse(s) ==
    [s EXCEPT !.conns = [c \in DOMAIN @ |->
        IF @[c].timer THEN [@[c] EXCEPT !.ticksLeft = @ - 1] ELSE @[c]]]

\* The session as one record, so that a handler is a function of it.
Cur == [variant |-> variant, dgConnection |-> dgConnection, isAlive |-> isAlive,
        isClosing |-> isClosing, registered |-> registered,
        readyState |-> readyState, pingInterval |-> pingInterval,
        phase |-> phase, conns |-> conns, nConns |-> nConns,
        ev |-> "none", evConn |-> 0, toClient |-> <<>>, mediaTo |-> 0,
        wsCloseCalled |-> FALSE, sendWhileClosing |-> FALSE,
        sendFailed |-> FALSE, sanFailed |-> FALSE, settled |-> "none",
        terminated |-> FALSE,
        teardownRuns |-> teardownRuns, creditFinal |-> creditFinal,
        ticked |-> ticked, pongSinceTick |-> pongSinceTick]

Apply(s) ==
    /\ variant' = s.variant
    /\ dgConnection' = s.dgConnection
    /\ isAlive' = s.isAlive
    /\ isClosing' = s.isClosing
    /\ registered' = s.registered
    /\ readyState' = s.readyState
    /\ pingInterval' = s.pingInterval
    /\ phase' = s.phase
    /\ conns' = s.conns
    /\ nConns' = s.nConns
    /\ ev' = s.ev
    /\ evConn' = s.evConn
    /\ toClient' = s.toClient
    /\ mediaTo' = s.mediaTo
    /\ wsCloseCalled' = s.wsCloseCalled
    /\ sendWhileClosing' = s.sendWhileClosing
    /\ sendFailed' = s.sendFailed
    /\ sanFailed' = s.sanFailed
    /\ settled' = s.settled
    /\ teardownRuns' = s.teardownRuns
    /\ creditFinal' = s.creditFinal
    /\ ticked' = s.ticked
    /\ pongSinceTick' = s.pongSinceTick
    /\ UNCHANGED <<sanitizeVars, admissionVars, registryVars>>

Event(s, name, c) == [s EXCEPT !.ev = name, !.evConn = c]

(***************************************************************************)
(* Helpers of the connection handler                                       *)
(***************************************************************************)

\* sendToClient(data): sends only on an open socket of a session that is not closing
sendToClient(s, kind) ==
    IF s.readyState = "OPEN" /\ ~s.isClosing
    THEN [s EXCEPT !.toClient = Append(@, kind)]
    ELSE s

\* dgConnection.finish(): asks the upstream to close; a no-op on a connection that is not open
Finish(cs, c) ==
    IF cs[c].status = "open" THEN [cs EXCEPT ![c].status = "finished"] ELSE cs

\* a teardown without clearInterval(pingInterval)
terminateConnection_keepInterval(s) ==
    LET s1 == [s EXCEPT !.isClosing = TRUE]
        s2 == IF s1.dgConnection # 0
              THEN [s1 EXCEPT !.conns = Finish(@, s1.dgConnection),
                              !.dgConnection = 0]
              ELSE s1
        s3 == [s2 EXCEPT !.registered = FALSE]
        s4 == IF s3.readyState = "OPEN"
              THEN [s3 EXCEPT !.readyState = "CLOSING", !.wsCloseCalled = TRUE]
              ELSE s3
    IN  [s4 EXCEPT !.teardownRuns = Sat2(@), !.terminated = TRUE]

\* terminateConnection(): the teardown; it has no guard, every call runs all of it
terminateConnection(s) ==
    LET acted == \/ ~s.isClosing
                 \/ s.pingInterval
                 \/ s.dgConnection # 0
                 \/ s.registered
                 \/ s.readyState = "OPEN"
        s1 == [s EXCEPT !.isClosing = TRUE, !.pingInterval = FALSE]
        s2 == IF s1.dgConnection # 0
              THEN [s1 EXCEPT !.conns = Finish(@, s1.dgConnection),
                              !.dgConnection = 0]
              ELSE s1
        s3 == [s2 EXCEPT !.registered = FALSE]
        s4 == IF s3.readyState = "OPEN"
              THEN [s3 EXCEPT !.readyState = "CLOSING", !.wsCloseCalled = TRUE]
              ELSE s3
    IN  [s4 EXCEPT !.teardownRuns = IF acted THEN Sat2(@) ELSE @,
                   !.terminated = TRUE]

\* initializeDeepgramConnection taking the new connection as the current handle
\* at once, before its Open
initializeDeepgramConnection_eager(s) ==
    IF s.isClosing
    THEN s
    ELSE [s EXCEPT !.nConns = @ + 1, !.conns[s.nConns + 1] = NewConn(ReinitTicks),
                   !.dgConnection = s.nConns + 1]

\* the body of initializeDeepgramConnection up to the promise it returns:
\* a new upstream connection, connecting, with its connect timeout armed
initializeDeepgramConnection(s) ==
    IF s.isClosing
    THEN s
    ELSE [s EXCEPT !.nConns = @ + 1, !.conns[s.nConns + 1] = NewConn(ReinitTicks)]

\* the send whose catch only logs, without the error notice
forwardAudio_silent(s, ok) ==
    IF s.dgConnection = 0
    THEN s
    ELSE IF ok
         THEN [s EXCEPT !.mediaTo = s.dgConnection,
                        !.sendWhileClosing = @ \/ s.isClosing]
         ELSE [s EXCEPT !.sendFailed = TRUE]

\* connectionState.dgConnection.send(data) in its try/catch: ok is whether the
\* upstream accepts the write; a failed write becomes an error notice
forwardAudio(s, ok) ==
    IF s.dgConnection = 0
    THEN s
    ELSE IF ok
         THEN [s EXCEPT !.mediaTo = s.dgConnection,
                        !.sendWhileClosing = @ \/ s.isClosing]
         ELSE sendToClient([s EXCEPT !.sendFailed = TRUE], "error")

\* a frame was sent upstream by this callback: the frames that arrived before
\* it and still wait for their connection (those of the connections created
\* before connection c) have been overtaken
Overtake(s, c) ==
    IF s.mediaTo # 0
    THEN [s EXCEPT !.conns = [k \in DOMAIN @ |->
            IF k > 1 /\ k < c /\ @[k].pending
            THEN [@[k] EXCEPT !.overtaken = TRUE]
            ELSE @[k]]]
    ELSE s

\* the connection handler after "await initializeDeepgramConnection()" returned:
\* the ready acknowledgment, then the message, close and error handlers are registered
startupResolved(s) ==
    LET s1 == IF ~s.isClosing THEN sendToClient(s, "ready") ELSE s
    IN  [s1 EXCEPT !.phase = "ready"]

\* the connection handler's catch: teardown and return, no handler is registered
startupRejected(s) ==
    [terminateConnection(s) EXCEPT !.phase = "failed"]

\* the message handler acknowledging a re-initialization like the startup does
messageResolved_ready(s, c, ok) ==
    sendToClient(Overtake(forwardAudio([s EXCEPT !.dgConnection = c], ok), c), "ready")

\* the message handler after its await returned connection c
messageResolved(s, c, ok) ==
    Overtake(forwardAudio([s EXCEPT !.dgConnection = c], ok), c)

\* the message handler's catch ending the session, as the startup's catch does
messageRejected_terminate(s) == terminateConnection(s)

\* the message handler's catch around the re-initialization: the frame is dropped
messageRejected(s) == s

\* resolve(dgConn) of connection c's promise and the continuation it releases
resolve(s, c, ok) ==
    IF s.conns[c].pending
    THEN LET s1 == [s EXCEPT !.conns[c].pending = FALSE, !.conns[c].overtaken = FALSE,
                             !.settled = "resolved"]
         IN  IF c = 1 THEN startupResolved(s1) ELSE messageResolved(s1, c, ok)
    ELSE s

\* reject(...) of connection c's promise and the continuation it releases
reject(s, c) ==
    IF s.conns[c].pending
    THEN LET s1 == [s EXCEPT !.conns[c].pending = FALSE, !.conns[c].overtaken = FALSE,
                             !.settled = "rejected"]
         IN  IF c = 1 THEN startupRejected(s1) ELSE messageRejected(s1)
    ELSE s

(***************************************************************************)
(* Upstream event handlers of connection c                                 *)
(***************************************************************************)

\* "data = sanitizeEventData(data)" throws: only the sanitizing revision calls it;
\* sanOk is whether the call returns
sanitizeThrows(s, sanOk) == s.variant = "sanitized" /\ ~sanOk

SanFail(s) == [s EXCEPT !.sanFailed = TRUE]

\* dgConn.on(Open): src/server/proxy.js does everything under "not closing";
\* the sanitizing revision takes the handle and resolves unconditionally, and
\* its catch rejects the connection's promise
onOpen(s, c, ok, sanOk) ==
    LET s0 == [s EXCEPT !.conns[c].status = "open", !.conns[c].openSeen = TRUE]
    IN  IF s0.variant = "proxy"
        THEN IF ~s0.isClosing
             THEN LET s1 == sendToClient(s0, "Open")
                      s2 == [clearTimeout(s1, c) EXCEPT !.dgConnection = c]
                  IN  resolve(s2, c, ok)
             ELSE s0
        ELSE IF sanitizeThrows(s0, sanOk)
             THEN reject(SanFail(s0), c)
             ELSE LET s1 == [clearTimeout(s0, c) EXCEPT !.dgConnection = c]
                      s2 == IF ~s1.isClosing THEN sendToClient(s1, "Open") ELSE s1
                  IN  resolve(s2, c, ok)

\* a Close handler that clears the handle whichever connection closed
onClose_anyConnection(s, c, sanOk) ==
    LET s0 == [s EXCEPT !.conns[c].status = "closed"]
    IN  IF sanitizeThrows(s0, sanOk)
        THEN SanFail(s0)
        ELSE LET s1 == [s0 EXCEPT !.dgConnection = 0]
             IN  IF ~s1.isClosing THEN sendToClient(s1, "Close") ELSE s1

\* dgConn.on(Close); in the sanitizing revision the whole handler is in the try
\* that sanitizeEventData can leave
onClose(s, c, sanOk) ==
    LET s0 == [s EXCEPT !.conns[c].status = "closed"]
    IN  IF sanitizeThrows(s0, sanOk)
        THEN SanFail(s0)
        ELSE LET s1 == IF s0.dgConnection = c
                       THEN [s0 EXCEPT !.dgConnection = 0]
                       ELSE s0
             IN  IF ~s1.isClosing THEN sendToClient(s1, "Close") ELSE s1

\* dgConn.on(Error): src/server/proxy.js reads the undeclared name "error" in its
\* first statement, so the handler throws before it does anything
onError(s, c, sanOk) ==
    IF s.variant = "proxy"
    THEN s
    ELSE IF sanitizeThrows(s, sanOk)
         THEN SanFail(s)
         ELSE LET s1 == IF ~s.isClosing THEN sendToClient(s, "Error") ELSE s
              IN  IF s1.dgConnection = 0
                  THEN reject(clearTimeout(s1, c), c)
                  ELSE s1

\* the handlers of the remaining events (Transcript, Metadata, ...); the
\* sanitizing revision sanitizes inside "not closing", in a try that only logs
onData(s, kind, sanOk) ==
    IF ~s.isClosing
    THEN IF sanitizeThrows(s, sanOk) THEN SanFail(s) ELSE sendToClient(s, kind)
    ELSE s

\* a connect timeout that only expires, without rejecting
onConnectTimeout_noReject(s, c) ==
    clearTimeout(s, c)

\* the connect timeout of connection c: reject(new Error('Deepgram connection timeout'))
onConnectTimeout(s, c) ==
    reject([clearTimeout(s, c) EXCEPT !.conns[c].timedOut = TRUE], c)

(***************************************************************************)
(* Client-side handlers                                                    *)
(***************************************************************************)

\* the stop branch finishing the handle without clearing it
stopCommand_keepHandle(s) ==
    IF s.dgConnection # 0
    THEN [s EXCEPT !.conns = Finish(@, s.dgConnection)]
    ELSE s

\* the stop branch of the message handler
stopCommand(s) ==
    IF s.dgConnection # 0
    THEN [s EXCEPT !.conns = Finish(@, s.dgConnection), !.dgConnection = 0]
    ELSE s

\* the audio branch of the message handler, up to its await or to its end
audioFrame(s, ok) ==
    IF s.dgConnection = 0
    THEN initializeDeepgramConnection(s)
    ELSE Overtake(forwardAudio(s, ok), s.nConns + 1)

\* JSON.parse(data.toString()) returns
parses(frame) == frame # "media"

\* what the try of the message handler does with the frame: "jsonMessage.type"
\* throws a TypeError on the value null, and the catch that is meant for
\* frames that are not JSON takes every exception of the try
tryThrows(frame) == ~parses(frame) \/ frame = "null"

\* clientWs.on('message')
onMessage(s, frame, ok) ==
    IF s.isClosing THEN s
    ELSE IF tryThrows(frame) THEN audioFrame(s, ok)
    ELSE IF frame = "stop" THEN stopCommand(s)
    ELSE s

\* the keepalive callback without "connectionState.isAlive = false"
pingTick_noClear(s) ==
    LET s0 == [s EXCEPT !.ticked = TRUE, !.pongSinceTick = FALSE]
    IN  IF ~s0.isAlive /\ ~s0.isClosing
        THEN terminateConnection(s0)
        ELSE IF s0.readyState = "OPEN"
             THEN [s0 EXCEPT !.toClient = Append(@, "ping"),
                             !.sendWhileClosing = @ \/ s0.isClosing]
             ELSE s0

\* the keepalive interval callback
pingTick(s) ==
    LET s0 == [s EXCEPT !.ticked = TRUE, !.pongSinceTick = FALSE]
    IN  IF ~s0.isAlive /\ ~s0.isClosing
        THEN terminateConnection(s0)
        ELSE LET s1 == [s0 EXCEPT !.isAlive = FALSE]
             IN  IF s1.readyState = "OPEN"
                 THEN [s1 EXCEPT !.toClient = Append(@, "ping"),
                                 !.sendWhileClosing = @ \/ s1.isClosing]
                 ELSE s1

\* clientWs.on('pong')
onPong(s) == [s EXCEPT !.isAlive = TRUE, !.pongSinceTick = TRUE]

\* clientWs.on('close'), registered once the startup await has returned
onClientClose(s) ==
    IF s.phase = "ready" THEN terminateConnection(s) ELSE s

\* sendWebSocketError(ws, 1011, ...) of index.js, the first 'error' listener of the socket
sendWebSocketError(s) ==
    IF s.readyState = "OPEN"
    THEN [s EXCEPT !.toClient = Append(@, "wserror"),
                   !.sendWhileClosing = @ \/ s.isClosing,
                   !.readyState = "CLOSING",
                   !.wsCloseCalled = TRUE]
    ELSE s

\* the socket's 'error' event: index.js's listener, then clientWs.on('error') if registered
onClientError(s) ==
    LET s1 == sendWebSocketError(s)
    IN  IF s1.phase = "ready" THEN terminateConnection(s1) ELSE s1

(***************************************************************************)
(* Event payloads and their sanitization (the sanitizing revision)         *)
(***************************************************************************)

\* Nesting depth of the payloads looked at.
MaxDepth == 2
\* Length of the arrays in the payloads looked at.
MaxArrayLen == 1

\* JSON values, tagged by their type; a hole is the slot "delete arr[i]" leaves
Str(v) == [t |-> "str", v |-> v]
Obj(f) == [t |-> "obj", f |-> f]
Arr(a) == [t |-> "arr", a |-> a]
Null == [t |-> "null"]
Hole == [t |-> "hole"]
\* sanitizeEventData left by an exception
Threw == [t |-> "threw"]

\* the strings of the payloads: the two keys that may be configured and a harmless one
Leaves == {Str("k1"), Str("x")}
\* the field names of the payloads: two sensitive ones would behave alike, so
\* one sensitive and one harmless name
FieldNames == {"request_id", "text"}

RECURSIVE Payloads(_)
Payloads(d) ==
    IF d = 0
    THEN Leaves
    ELSE LET P == Payloads(d - 1)
         IN  Leaves
               \cup {Obj(f) : f \in UNION {[S -> P] : S \in SUBSET FieldNames}}
               \cup {Arr(a) : a \in UNION {[1..n -> P] : n \in 0..MaxArrayLen}}

\* const sensitiveFields = [...]
sensitiveFields ==
    {"key", "Authorization", "headers", "_tlsOptions", "secureContext", "ssl",
     "_socket", "request_id", "_readableState", "_writableState", "baseUrl"}

\* getDeepgramKey(externalConfig): the key the proxy connects with
getDeepgramKey(cfg) == IF cfg.ext # "none" THEN cfg.ext ELSE cfg.env

\* JSON.parse(JSON.stringify(data)): a copy, in which the holes of arrays are null
RECURSIVE jsonCopy(_)
jsonCopy(v) ==
    IF v.t = "obj" THEN Obj([k \in DOMAIN v.f |-> jsonCopy(v.f[k])])
    ELSE IF v.t = "arr" THEN Arr([i \in DOMAIN v.a |-> jsonCopy(v.a[i])])
    ELSE IF v.t = "hole" THEN Null
    ELSE v

\* removeSensitiveInfo(obj): deletes the sensitive names, then the members equal
\* to the key, then recurses into what is left; on an array the deleted slots
\* stay as holes
RECURSIVE removeSensitiveInfo(_, _)
removeSensitiveInfo(v, ourApiKey) ==
    IF v.t = "obj"
    THEN LET kept == {k \in DOMAIN v.f \ sensitiveFields : v.f[k] # Str(ourApiKey)}
         IN  Obj([k \in kept |-> removeSensitiveInfo(v.f[k], ourApiKey)])
    ELSE IF v.t = "arr"
    THEN Arr([i \in DOMAIN v.a |->
                IF v.a[i] = Str(ourApiKey)
                THEN Hole
                ELSE removeSensitiveInfo(v.a[i], ourApiKey)])
    ELSE v

\* sanitizeEventData(data): "process.env.DEEPGRAM_API_KEY || config.deepgram.key",
\* where no "config" is declared in the file: without the environment variable
\* the second operand is evaluated and throws
sanitizeEventData(data, cfg) ==
    IF cfg.env = "none"
    THEN Threw
    ELSE removeSensitiveInfo(jsonCopy(data), cfg.env)

\* a non-empty string is truthy
Truthy(str) == str # ""
\* LiveTranscriptionEvents.Unhandled
UnhandledEvent == "Unhandled"

\* the condition of the remaining handlers: eventName === Warning ||
\* eventName === Metadata || LiveTranscriptionEvents.Unhandled
sanitizesEvent(eventName) ==
    eventName = "Warning" \/ eventName = "Metadata" \/ Truthy(UnhandledEvent)

\* the event kinds with a handler of their own, which always sanitize
OwnHandlerEvents == {"Open", "Close", "Error"}
\* event kinds handled by the common handler
CommonHandlerEvents == {"Transcript", "Metadata"}

\* what a handler passes to sendToClient for an event of this kind
forwardedPayload(eventName, data, cfg) ==
    IF eventName \in OwnHandlerEvents \/ sanitizesEvent(eventName)
    THEN sanitizeEventData(data, cfg)
    ELSE data

(***************************************************************************)
(* Admission of upgrade requests, usage updates and shutdown (index.js)    *)
(***************************************************************************)

\* Number of upgrade requests looked at.
MaxRequests == 2

RequestIds == 1..MaxRequests

\* what getTokenFromRequest does: no auth_token parameter, one, or a request
\* url that "new URL" rejects
Tokens == {"missing", "present", "unparsable"}
\* how admin.auth().verifyIdToken(token) settles: the decoded token, or an
\* error with one of the codes of the switch, or any other error
VerifyOutcomes ==
    {"ok", "auth/id-token-expired", "auth/id-token-revoked", "auth/argument-error", "other"}
\* how creditManager.checkUserCredits(userId) settles: credits left, none
\* left, a status with an error, or a rejected promise
CreditOutcomes == {"ok", "insufficient", "error", "throws"}
\* decodedToken.uid, and the principals usage events name
Principals == {"debug-user", "u1"}
Durations == {5}

NoRequest ==
    [stage |-> "none", token |-> "missing", verify |-> "none", credit |-> "none",
     userId |-> "none", errors |-> <<>>, destroyed |-> FALSE]

NoUpdate ==
    [stage |-> "idle", userId |-> "none", duration |-> 0, isClosed |-> FALSE,
     logged |-> "none"]

\* the credit_update handler has returned after this line of its log
Logged(line) == [NoUpdate EXCEPT !.logged = line]

Call(op, userId, duration) == [op |-> op, userId |-> userId, duration |-> duration]

\* sendPreUpgradeError(socket, statusCode, message): the status line and the
\* JSON body carry the code and the message, then the socket is ended
sendPreUpgradeError(r, statusCode, message) ==
    [r EXCEPT !.errors = Append(@, [code |-> statusCode, message |-> message])]

\* the handler returns after its error response
Rejected(r, statusCode, message) ==
    [sendPreUpgradeError(r, statusCode, message) EXCEPT !.stage = "rejected"]

\* wss.handleUpgrade(enhancedRequest, socket, head, cb): the callback emits
\* 'connection', which runs the proxy's connection handler; on a socket that
\* was destroyed meanwhile nothing is upgraded
handleUpgrade(r, userId) ==
    IF r.destroyed
    THEN [r EXCEPT !.stage = "aborted"]
    ELSE [r EXCEPT !.stage = "upgraded", !.userId = userId]

\* the message of the inner catch, by error.code
authErrorMessage(code) ==
    CASE code = "auth/id-token-expired" -> "Token expired"
      [] code = "auth/id-token-revoked" -> "Token revoked"
      [] code = "auth/argument-error" -> "Invalid token format"
      [] OTHER -> "Authentication failed"

\* server.on('upgrade') up to its first await
onUpgrade(r, debug, token) ==
    LET q == [r EXCEPT !.token = token]
    IN  IF debug
        THEN handleUpgrade(q, "debug-user")
        ELSE IF token = "unparsable"
        THEN Rejected(q, 500, "Server error occurred")
        ELSE IF token = "missing"
        THEN Rejected(q, 401, "Authentication token required")
        ELSE [q EXCEPT !.stage = "verifying"]

\* the continuation of "await admin.auth().verifyIdToken(token)"
onVerified(r, outcome, uid) ==
    LET q == [r EXCEPT !.verify = outcome]
    IN  IF outcome = "ok"
        THEN [q EXCEPT !.stage = "checking", !.userId = uid]
        ELSE Rejected(q, 401, authErrorMessage(outcome))

\* the continuation with the check of creditStatus.error left out
onCreditChecked_noErrorCheck(r, outcome) ==
    LET q == [r EXCEPT !.credit = outcome]
    IN  CASE outcome = "throws" -> Rejected(q, 401, authErrorMessage("none"))
          [] outcome = "insufficient" -> Rejected(q, 403, "Insufficient credits")
          [] OTHER -> handleUpgrade(q, q.userId)

\* the continuation of "await creditManager.checkUserCredits(userId)"; the
\* await is inside the try whose catch answers 401
onCreditChecked(r, outcome) ==
    LET q == [r EXCEPT !.credit = outcome]
    IN  CASE outcome = "throws" -> Rejected(q, 401, authErrorMessage("none"))
          [] outcome = "error" -> Rejected(q, 500, "Failed to verify credits")
          [] outcome = "insufficient" -> Rejected(q, 403, "Insufficient credits")
          [] OTHER -> handleUpgrade(q, q.userId)

\* socket.on('error'), registered by the upgrade handler and never removed:
\* the socket that emits 'error' is destroyed
onSocketError(r) ==
    [sendPreUpgradeError(r, 500, "Internal Server Error") EXCEPT !.destroyed = TRUE]

\* the credit_update handler without its DEBUG_MODE test
creditUpdate_noDebugReturn(debug, userId, duration, isClosed) ==
    [upd |-> [stage |-> "buffering", userId |-> userId,
              duration |-> duration, isClosed |-> isClosed, logged |-> "none"],
     calls |-> <<Call("bufferCreditUpdate", userId, duration)>>]

\* proxyEvents.on('credit_update') up to its first await
creditUpdate(debug, userId, duration, isClosed) ==
    IF debug
    THEN [upd |-> Logged("skipped"), calls |-> <<>>]
    ELSE [upd |-> [stage |-> "buffering", userId |-> userId,
                   duration |-> duration, isClosed |-> isClosed, logged |-> "none"],
          calls |-> <<Call("bufferCreditUpdate", userId, duration)>>]

\* a continuation that flushes after every buffered update, final or not
bufferSettled_alwaysFlush(upd, ok) ==
    IF ok
    THEN [upd |-> [upd EXCEPT !.stage = "flushing"],
          calls |-> <<Call("flushCredits", upd.userId, 0)>>]
    ELSE [upd |-> Logged("failed"), calls |-> <<>>]

\* the continuation of "await creditManager.bufferCreditUpdate(...)"
bufferSettled(upd, ok) ==
    IF ok /\ upd.isClosed
    THEN [upd |-> [upd EXCEPT !.stage = "flushing"],
          calls |-> <<Call("flushCredits", upd.userId, 0)>>]
    ELSE [upd |-> Logged(IF ok THEN "buffered" ELSE "failed"), calls |-> <<>>]

\* the continuation of "await creditManager.flushCredits(userId)", or the catch
flushSettled(upd, ok) == Logged(IF ok THEN "flushed" ELSE "failed")

\* wss.clients.forEach(client.close(1000, ...))
closeClients(reqs) ==
    [i \in DOMAIN reqs |->
        IF reqs[i].stage = "upgraded" THEN [reqs[i] EXCEPT !.stage = "closed"] ELSE reqs[i]]

\* the end of the SIGTERM handler
closeAll == <<Call("closeClients", "none", 0), Call("serverClose", "none", 0)>>

\* process.on('SIGTERM') up to its await
sigterm(debug) ==
    IF debug
    THEN [shutdown |-> "closed", calls |-> closeAll]
    ELSE [shutdown |-> "flushing",
          calls |-> <<Call("flushAllCredits", "none", 0)>>]

(***************************************************************************)
(* The sessions of one server and its registry                             *)
(***************************************************************************)

\* Client connections one server accepts.
MaxSessions == 2

SessionIds == 1..MaxSessions

\* Upstream connections each of these sessions creates (its startup connection).
MaxSessionConns == 1

\* The values of Math.random().toString(36).substring(7) that are told apart:
\* two connection handlers may draw the same one.
ClientIds == 1..MaxSessions

\* the closure of a connection handler that has run up to its await
NewSession(v) ==
    [variant |-> v, dgConnection |-> 0, isAlive |-> TRUE, isClosing |-> FALSE,
     registered |-> TRUE, readyState |-> "OPEN", pingInterval |-> TRUE,
     phase |-> "awaiting",
     conns |-> [c \in ConnIds |-> IF c = 1 THEN NewConn(StartupTicks) ELSE NoConn],
     nConns |-> 1,
     ev |-> "none", evConn |-> 0, toClient |-> <<>>, mediaTo |-> 0,
     wsCloseCalled |-> FALSE, sendWhileClosing |-> FALSE,
     sendFailed |-> FALSE, sanFailed |-> FALSE, settled |-> "none",
     terminated |-> FALSE,
     teardownRuns |-> 0, creditFinal |-> 0,
     ticked |-> FALSE, pongSinceTick |-> FALSE]

\* a connection handler that has not been called
NoSession ==
    [NewSession("proxy") EXCEPT !.phase = "absent", !.registered = FALSE,
                                !.pingInterval = FALSE, !.readyState = "CLOSED",
                                !.conns = [c \in ConnIds |-> NoConn], !.nConns = 0]

\* the closure state a callback leaves behind: what it sent and the history
\* kept about it are not part of it
Quiet(s) ==
    [s EXCEPT !.ev = "none", !.evConn = 0, !.toClient = <<>>, !.mediaTo = 0,
              !.wsCloseCalled = FALSE, !.sendWhileClosing = FALSE,
              !.sendFailed = FALSE, !.sanFailed = FALSE, !.settled = "none",
              !.terminated = FALSE, !.teardownRuns = 0, !.creditFinal = 0,
              !.ticked = FALSE, !.pongSinceTick = FALSE,
              !.conns = [c \in DOMAIN @ |->
                            [@[c] EXCEPT !.openSeen = FALSE, !.overtaken = FALSE,
                                         !.timedOut = FALSE]]]

\* The callbacks a connection handler in state s can run next, each given by
\* the state it leaves: the upstream events of its connections, their connect
\* timeouts, the client's frames, the keepalive tick, pong, close and error.
\* A media frame that needs a new upstream connection is taken while the
\* session has created fewer than maxc.
SessionSteps(s, maxc) ==
    LET san == IF s.variant = "sanitized" THEN BOOLEAN ELSE {TRUE}
        sendOk(c) == IF c > 1 /\ s.conns[c].pending THEN BOOLEAN ELSE {TRUE}
        status(S) == {c \in ConnIds : s.conns[c].status \in S}
        frames == {x \in Frames \X BOOLEAN :
                     /\ s.phase = "ready"
                     /\ ~x[2] => (tryThrows(x[1]) /\ s.dgConnection # 0 /\ ~s.isClosing)
                     /\ s.readyState # "CLOSED"
                     /\ (tryThrows(x[1]) /\ s.dgConnection = 0 /\ ~s.isClosing)
                           => s.nConns < maxc}
        armed == \A c \in ConnIds : s.conns[c].timer => s.conns[c].ticksLeft > 0
    IN  UNION {
          UNION {{onOpen(Event(s, "Open", c), c, ok, sanOk) :
                     ok \in sendOk(c), sanOk \in san} : c \in status({"connecting"})},
          UNION {{onClose(Event(s, "Close", c), c, sanOk) : sanOk \in san} :
                     c \in status({"connecting", "open", "finished"})},
          UNION {{onError(Event(s, "Error", c), c, sanOk) : sanOk \in san} :
                     c \in status({"connecting", "open"})},
          UNION {{onData(Event(s, kind, c), kind, sanOk) :
                     kind \in DataEvents, sanOk \in san} : c \in status({"open"})},
          {onConnectTimeout(Event(s, "timeout", c), c) :
                     c \in {c \in ConnIds : s.conns[c].timer}},
          {onMessage(Event(s, x[1], 0), x[1], x[2]) : x \in frames},
          IF s.pingInterval /\ armed
              THEN {pingTick(Elapse(Event(s, "tick", 0)))} ELSE {},
          IF s.readyState # "CLOSED"
              THEN {onPong(Event(s, "pong", 0)),
                    onClientClose(Event([s EXCEPT !.readyState = "CLOSED"], "close", 0))}
                   \cup {onClientError(Event([s EXCEPT !.readyState = rs], "error", 0)) :
                            rs \in {s.readyState, "CLOSING"}}
              ELSE {} }

\* activeConnections.set(clientId, connectionState)
activeConnectionsSet(keys, id) == keys \cup {id}

\* activeConnections.delete(clientId) that removes nothing
activeConnectionsDelete_keep(keys, id) == keys

\* activeConnections.delete(clientId)
activeConnectionsDelete(keys, id) == keys \ {id}

\* getConnectionCount: () => activeConnections.size
getConnectionCount == Cardinality(activeConnections)

\* one connectionState object used by every connection handler: the flags a
\* callback leaves are seen by all of them
connectionStateOf_shared(ss, i, s) ==
    [j \in DOMAIN ss |->
        IF j = i THEN s
        ELSE IF ss[j].phase = "absent" THEN ss[j]
        ELSE [ss[j] EXCEPT !.isAlive = s.isAlive, !.isClosing = s.isClosing]]

\* "const connectionState = {...}" and the other locals of the connection
\* handler: each call of the handler has its own, and its callbacks close over
\* them alone
connectionStateOf(ss, i, s) == [ss EXCEPT ![i] = s]

\* client.close(1000, 'Server shutting down') for every client that is open
closeOpenClients(ss) ==
    [i \in DOMAIN ss |->
        IF ss[i].readyState = "OPEN" THEN [ss[i] EXCEPT !.readyState = "CLOSING"]
        ELSE ss[i]]

(***************************************************************************)
(* The state machine                                                       *)
(***************************************************************************)

\* The connection handler has run up to its await: the session is registered,
\* the keepalive is scheduled and the startup connection is connecting.
SessionInit ==
    /\ variant \in Variants
    /\ dgConnection = 0
    /\ isAlive = TRUE
    /\ isClosing = FALSE
    /\ registered = TRUE
    /\ readyState = "OPEN"
    /\ pingInterval = TRUE
    /\ phase = "awaiting"
    /\ conns = [c \in ConnIds |-> IF c = 1 THEN NewConn(StartupTicks) ELSE NoConn]
    /\ nConns = 1
    /\ ev = "none"
    /\ evConn = 0
    /\ toClient = <<>>
    /\ mediaTo = 0
    /\ wsCloseCalled = FALSE
    /\ sendWhileClosing = FALSE
    /\ sendFailed = FALSE
    /\ sanFailed = FALSE
    /\ settled = "none"
    /\ teardownRuns = 0
    /\ creditFinal = 0
    /\ ticked = FALSE
    /\ pongSinceTick = FALSE

\* no event payload is being looked at
SanitizeIdle ==
    /\ keyConfig = [ext |-> "none", env |-> "k1"]
    /\ payload = Null
    /\ forwarded = [kind |-> "none", out |-> Null]

\* no upgrade request has arrived
AdmissionIdle ==
    /\ DEBUG_MODE = FALSE
    /\ requests = [i \in RequestIds |-> NoRequest]
    /\ update = NoUpdate
    /\ shutdown = "running"
    /\ calls = <<>>

\* no client has connected
RegistryIdle ==
    /\ sessions = [i \in SessionIds |-> NoSession]
    /\ clientId = [i \in SessionIds |-> 0]
    /\ activeConnections = {}
    /\ listening = TRUE
    /\ actor = 0

Init == SessionInit /\ SanitizeIdle /\ AdmissionIdle /\ RegistryIdle

\* the outcomes of sanitizeEventData that make a difference
SanOutcomes == IF variant = "sanitized" THEN BOOLEAN ELSE {TRUE}

\* the outcomes of dgConnection.send that make a difference for the callback
\* that resumes the message handler waiting for connection c
SendOutcomes(c) == IF c > 1 /\ conns[c].pending THEN BOOLEAN ELSE {TRUE}

UpstreamOpen ==
    \E c \in ConnIds, ok \in BOOLEAN, sanOk \in SanOutcomes :
        /\ conns[c].status = "connecting"
        /\ ok \in SendOutcomes(c)
        /\ Apply(onOpen(Event(Cur, "Open", c), c, ok, sanOk))

UpstreamClose ==
    \E c \in ConnIds, sanOk \in SanOutcomes :
        /\ conns[c].status \in {"connecting", "open", "finished"}
        /\ Apply(onClose(Event(Cur, "Close", c), c, sanOk))

UpstreamError ==
    \E c \in ConnIds, sanOk \in SanOutcomes :
        /\ conns[c].status \in {"connecting", "open"}
        /\ Apply(onError(Event(Cur, "Error", c), c, sanOk))

UpstreamData ==
    \E c \in ConnIds, kind \in DataEvents, sanOk \in SanOutcomes :
        /\ conns[c].status = "open"
        /\ Apply(onData(Event(Cur, kind, c), kind, sanOk))

\* the connect timeout of connection c fires
ConnectTimeoutOf(c) ==
    /\ conns[c].timer
    /\ Apply(onConnectTimeout(Event(Cur, "timeout", c), c))

ConnectTimeout == \E c \in ConnIds : ConnectTimeoutOf(c)

\* a frame from the client; a media frame that needs a new upstream connection
\* is taken only while the session may still create one
ClientFrame ==
    \E frame \in Frames, ok \in BOOLEAN :
        /\ phase = "ready"
        /\ ~ok => (tryThrows(frame) /\ dgConnection # 0 /\ ~isClosing)
        /\ readyState # "CLOSED"
        /\ (tryThrows(frame) /\ dgConnection = 0 /\ ~isClosing) => nConns < MaxConns
        /\ Apply(onMessage(Event(Cur, frame, 0), frame, ok))

KeepaliveTick ==
    /\ pingInterval
    /\ \A c \in ConnIds : conns[c].timer => conns[c].ticksLeft > 0
    /\ Apply(pingTick(Elapse(Event(Cur, "tick", 0))))

ClientPong ==
    /\ readyState # "CLOSED"
    /\ Apply(onPong(Event(Cur, "pong", 0)))

\* the client's socket closes, on the client's initiative or completing a close
\* the server started
ClientClose ==
    /\ readyState # "CLOSED"
    /\ Apply(onClientClose(Event([Cur EXCEPT !.readyState = "CLOSED"], "close", 0)))

\* the client's socket fails; the ws library may already have moved the socket
\* to CLOSING when it emits 'error'
ClientError ==
    \E rs \in {readyState, "CLOSING"} :
        /\ readyState # "CLOSED"
        /\ Apply(onClientError(Event([Cur EXCEPT !.readyState = rs], "error", 0)))

Next ==
    \/ UpstreamOpen
    \/ UpstreamClose
    \/ UpstreamError
    \/ UpstreamData
    \/ ConnectTimeout
    \/ ClientFrame
    \/ KeepaliveTick
    \/ ClientPong
    \/ ClientClose
    \/ ClientError

Spec == Init /\ [][Next]_vars

\* Timers that are armed fire: the keepalive interval keeps ticking until it
\* is cleared, and a connect timeout that is not cleared expires. A client
\* socket that is closing (after close() or an error) gets closed.
FairSpec ==
    /\ Spec
    /\ WF_vars(KeepaliveTick)
    /\ \A c \in ConnIds : WF_vars(ConnectTimeoutOf(c))
    /\ WF_vars(readyState = "CLOSING" /\ ClientClose)

\* Connect attempts one session makes in the behaviours checked for their
\* settling.
MaxAttempts == 2

\* src/server/proxy.js making at most MaxAttempts connect attempts, with the
\* connect timeouts firing
InitConnect == Init /\ variant = "proxy"

NextConnect == Next /\ nConns' <= MaxAttempts

SpecConnect ==
    /\ InitConnect
    /\ [][NextConnect]_vars
    /\ \A c \in ConnIds : WF_vars(ConnectTimeoutOf(c))

\* The sanitizing revision forwarding one event: the proxy was set up with a
\* key from the external config, the environment or both, and an event with
\* some payload arrives.
InitSanitize ==
    /\ SessionInit
    /\ AdmissionIdle
    /\ RegistryIdle
    /\ variant = "sanitized"
    /\ keyConfig \in {cfg \in [ext : {"none", "k1"}, env : {"none", "k1", "k2"}] :
                        cfg.ext # "none" \/ cfg.env # "none"}
    /\ payload \in Payloads(MaxDepth)
    /\ forwarded = [kind |-> "none", out |-> Null]

\* a handler of dgConn.on(Open / Close / Error) sanitizes the event's data
SanitizeOwnEvent ==
    \E eventName \in OwnHandlerEvents :
        /\ forwarded.kind = "none"
        /\ forwarded' = [kind |-> eventName,
                         out |-> forwardedPayload(eventName, payload, keyConfig)]
        /\ UNCHANGED <<registryVars, sessionVars, keyConfig, payload, admissionVars>>

\* the common handler prepares the data of one of the remaining events
ForwardCommonEvent ==
    \E eventName \in CommonHandlerEvents :
        /\ forwarded.kind = "none"
        /\ forwarded' = [kind |-> eventName,
                         out |-> forwardedPayload(eventName, payload, keyConfig)]
        /\ UNCHANGED <<registryVars, sessionVars, keyConfig, payload, admissionVars>>

NextSanitize == SanitizeOwnEvent \/ ForwardCommonEvent

SpecSanitize == InitSanitize /\ [][NextSanitize]_vars

\* The server with its proxy set up, in debug mode or not, and no request yet.
InitAdmission ==
    /\ SessionInit
    /\ variant = "proxy"
    /\ SanitizeIdle
    /\ RegistryIdle
    /\ DEBUG_MODE \in BOOLEAN
    /\ requests = [i \in RequestIds |-> NoRequest]
    /\ update = NoUpdate
    /\ shutdown = "running"
    /\ calls = <<>>

\* the server still takes events: the handler of SIGTERM has not closed it
Serving == shutdown \in {"running", "flushing"}
\* the process has not exited
Running == shutdown # "exited"

UpgradeRequest ==
    \E i \in RequestIds, token \in Tokens :
        /\ Serving
        /\ requests[i].stage = "none"
        /\ requests' = [requests EXCEPT ![i] = onUpgrade(@, DEBUG_MODE, token)]
        /\ calls' = IF requests'[i].stage = "verifying"
                    THEN <<Call("verifyIdToken", "none", 0)>>
                    ELSE <<>>
        /\ UNCHANGED <<registryVars, sessionVars, sanitizeVars, DEBUG_MODE, update, shutdown>>

TokenVerified ==
    \E i \in RequestIds, outcome \in VerifyOutcomes, uid \in Principals \ {"debug-user"} :
        /\ Running
        /\ requests[i].stage = "verifying"
        /\ requests' = [requests EXCEPT ![i] = onVerified(@, outcome, uid)]
        /\ calls' = IF outcome = "ok"
                    THEN <<Call("checkUserCredits", uid, 0)>>
                    ELSE <<>>
        /\ UNCHANGED <<registryVars, sessionVars, sanitizeVars, DEBUG_MODE, update, shutdown>>

CreditChecked ==
    \E i \in RequestIds, outcome \in CreditOutcomes :
        /\ Running
        /\ requests[i].stage = "checking"
        /\ requests' = [requests EXCEPT ![i] = onCreditChecked(@, outcome)]
        /\ calls' = <<>>
        /\ UNCHANGED <<registryVars, sessionVars, sanitizeVars, DEBUG_MODE, update, shutdown>>

SocketError ==
    \E i \in RequestIds :
        /\ Running
        /\ requests[i].stage \notin {"none", "closed"}
        /\ ~requests[i].destroyed
        /\ requests' = [requests EXCEPT ![i] = onSocketError(@)]
        /\ calls' = <<>>
        /\ UNCHANGED <<registryVars, sessionVars, sanitizeVars, DEBUG_MODE, update, shutdown>>

CreditUpdate ==
    \E userId \in Principals, duration \in Durations, isClosed \in BOOLEAN :
        /\ Running
        /\ update.stage = "idle"
        /\ LET res == creditUpdate(DEBUG_MODE, userId, duration, isClosed)
           IN  update' = res.upd /\ calls' = res.calls
        /\ UNCHANGED <<registryVars, sessionVars, sanitizeVars, DEBUG_MODE, requests, shutdown>>

BufferSettled ==
    \E ok \in BOOLEAN :
        /\ Running
        /\ update.stage = "buffering"
        /\ LET res == bufferSettled(update, ok)
           IN  update' = res.upd /\ calls' = res.calls
        /\ UNCHANGED <<registryVars, sessionVars, sanitizeVars, DEBUG_MODE, requests, shutdown>>

FlushSettled ==
    \E ok \in BOOLEAN :
        /\ Running
        /\ update.stage = "flushing"
        /\ update' = flushSettled(update, ok)
        /\ calls' = <<>>
        /\ UNCHANGED <<registryVars, sessionVars, sanitizeVars, DEBUG_MODE, requests, shutdown>>

Sigterm ==
    /\ shutdown = "running"
    /\ LET res == sigterm(DEBUG_MODE)
       IN  /\ shutdown' = res.shutdown
           /\ calls' = res.calls
           /\ requests' = IF res.shutdown = "closed" THEN closeClients(requests) ELSE requests
    /\ UNCHANGED <<registryVars, sessionVars, sanitizeVars, DEBUG_MODE, update>>

\* the continuation of "await creditManager.flushAllCredits()", or the catch
\* that exits
FlushAllSettled ==
    \E ok \in BOOLEAN :
        /\ shutdown = "flushing"
        /\ shutdown' = IF ok THEN "closed" ELSE "exited"
        /\ calls' = IF ok THEN closeAll ELSE <<Call("exit", "none", 0)>>
        /\ requests' = IF ok THEN closeClients(requests) ELSE requests
        /\ UNCHANGED <<registryVars, sessionVars, sanitizeVars, DEBUG_MODE, update>>

NextAdmission ==
    \/ UpgradeRequest
    \/ TokenVerified
    \/ CreditChecked
    \/ SocketError
    \/ CreditUpdate
    \/ BufferSettled
    \/ FlushSettled
    \/ Sigterm
    \/ FlushAllSettled

SpecAdmission == InitAdmission /\ [][NextAdmission]_vars

\* One server with its sessions, each creating at most MaxSessionConns upstream
\* connections.
InitRegistry == Init

\* wss.on('connection') up to its await: clientId drawn, connectionState
\* created and put in the registry, keepalive scheduled, startup connection begun
Accept ==
    \E i \in SessionIds, id \in ClientIds :
        /\ listening
        /\ sessions[i].phase = "absent"
        /\ \A j \in SessionIds : j < i => sessions[j].phase # "absent"
        /\ sessions' = connectionStateOf(sessions, i, NewSession(variant))
        /\ clientId' = [clientId EXCEPT ![i] = id]
        /\ activeConnections' = activeConnectionsSet(activeConnections, id)
        /\ actor' = i
        /\ UNCHANGED <<listening, sessionVars, sanitizeVars, admissionVars>>

\* a callback of session i runs
SessionEvent ==
    \E i \in SessionIds :
        \E s \in SessionSteps(sessions[i], MaxSessionConns) :
            /\ sessions' = connectionStateOf(sessions, i, Quiet(s))
            /\ activeConnections' =
                 IF s.terminated
                 THEN activeConnectionsDelete(activeConnections, clientId[i])
                 ELSE activeConnections
            /\ actor' = i
            /\ UNCHANGED <<clientId, listening, sessionVars, sanitizeVars, admissionVars>>

\* the SIGTERM handler of index.js past its await: the clients are closed and
\* the server stops listening
Shutdown ==
    /\ listening
    /\ sessions' = closeOpenClients(sessions)
    /\ listening' = FALSE
    /\ actor' = 0
    /\ UNCHANGED <<clientId, activeConnections, sessionVars, sanitizeVars, admissionVars>>

NextRegistry == Accept \/ SessionEvent \/ Shutdown

SpecRegistry == InitRegistry /\ [][NextRegistry]_vars

TypeOK ==
    /\ variant \in Variants
    /\ dgConnection \in 0..MaxConns
    /\ isAlive \in BOOLEAN
    /\ isClosing \in BOOLEAN
    /\ registered \in BOOLEAN
    /\ readyState \in {"OPEN", "CLOSING", "CLOSED"}
    /\ pingInterval \in BOOLEAN
    /\ phase \in {"awaiting", "ready", "failed"}
    /\ nConns \in 1..MaxConns
    /\ \A c \in ConnIds :
        /\ conns[c].status \in {"none", "connecting", "open", "finished", "closed"}
        /\ conns[c].pending \in BOOLEAN
        /\ conns[c].pending => conns[c].status # "none"
        /\ (conns[c].status = "none") <=> (c > nConns)
    /\ teardownRuns \in 0..2
    /\ ticked \in BOOLEAN

(***************************************************************************)
(* Properties                                                              *)
(***************************************************************************)

Live(c) == conns[c].status \in {"connecting", "open"}
Released(c) == conns[c].status \in {"none", "finished", "closed"}

\* C1: the teardown body runs exactly once per session: at most one invocation
\* of terminateConnection executes any teardown step (a later invocation
\* executes none).
C1_TeardownRunsOnce == teardownRuns <= 1

\* C2: every session that has been torn down has emitted exactly one usage
\* increment with is-final = true.
C2_OneFinalIncrement == isClosing => creditFinal = 1

\* C3: a media frame is sent to an upstream connection only after that
\* connection's Open confirmation has been observed.
C3_MediaOnlyAfterOpen == mediaTo # 0 => conns[mediaTo].openSeen

\* a media frame went to a re-initialized connection
C3_Witness == mediaTo > 1 /\ conns[mediaTo].openSeen

\* C4: whenever the current handle is replaced by another upstream connection,
\* the previous connection has already been finished or has closed.
C4_SupersedeFinalizesPrevious ==
    [][(dgConnection # 0 /\ dgConnection' # 0 /\ dgConnection' # dgConnection)
         => conns[dgConnection].status \in {"finished", "closed"}]_vars

\* C5: once isClosing is set, no message is sent to the client and no media
\* frame is sent to any upstream connection of the session.
C5_NoSendAfterClosing == ~sendWhileClosing

\* C6: once the session is torn down and no connect timeout or Open is pending,
\* every upstream connection ever created has been finished or has closed.
C6_NoUpstreamLeak ==
    (isClosing /\ \A c \in ConnIds : ~conns[c].timer /\ conns[c].status # "connecting")
        => \A c \in ConnIds : Released(c)

\* C7: on each keepalive tick of a live session, if a tick came before and no
\* pong was received since, the session is terminated; otherwise the alive flag
\* is cleared, the session stays live and a ping goes to the open client socket.
C7_KeepaliveTick ==
    [][(ev' = "tick" /\ ~isClosing) =>
         IF ticked /\ ~pongSinceTick
         THEN isClosing' /\ ~pingInterval' /\ ~registered' /\ toClient' = <<>>
         ELSE /\ ~isAlive'
              /\ ~isClosing' /\ pingInterval' /\ registered'
              /\ (readyState = "OPEN" => toClient' = <<"ping">>)]_vars

\* the keepalive terminated a session whose client did not answer
C7_Witness == ev = "tick" /\ isClosing /\ ~pongSinceTick /\ ticked

\* C8: when the startup connect timeout closes the client connection, the
\* client has been sent exactly one error message first.
C8_ErrorBeforeStartupTimeoutClose ==
    (ev = "timeout" /\ evConn = 1 /\ phase = "failed" /\ wsCloseCalled)
        => toClient = <<"error">>

\* C9: an upstream Error event received while the session is not terminating
\* is forwarded to the client; it terminates the session only before readiness
\* during startup, and otherwise leaves the session registered, not closing,
\* with its handle unchanged.
C9_UpstreamErrorPolicy ==
    [][(ev' = "Error" /\ ~isClosing) =>
         /\ (readyState = "OPEN" => toClient' = <<"Error">>)
         /\ (isClosing' => evConn' = 1 /\ phase = "awaiting")
         /\ (~(evConn' = 1 /\ phase = "awaiting") =>
                /\ registered' = registered
                /\ dgConnection' = dgConnection)]_vars

\* C10: a stop command processed in a live session with a current handle calls
\* finish on that handle and clears it, and does not terminate the session.
C10_StopFinalizesHandle ==
    [][(ev' = "stop" /\ ~isClosing /\ dgConnection # 0) =>
         /\ conns'[dgConnection].status \in {"finished", "closed"}
         /\ (conns[dgConnection].status = "open"
                => conns'[dgConnection].status = "finished")
         /\ dgConnection' = 0
         /\ registered' /\ ~isClosing' /\ pingInterval'
         /\ readyState' = readyState /\ ~wsCloseCalled']_vars

\* a stop command has finished and cleared the handle of a live session
C10_Witness ==
    /\ ev = "stop" /\ ~isClosing /\ registered /\ dgConnection = 0
    /\ \E c \in ConnIds : conns[c].status = "finished"

Count(seq, x) == Cardinality({i \in DOMAIN seq : seq[i] = x})

\* C11: while a re-initialized upstream connection is waiting for its Open, no
\* further media frame creates another one: at most one re-initialization
\* attempt is pending.
C11_OneReinitAttempt ==
    Cardinality({c \in ConnIds : /\ c > 1
                                 /\ conns[c].status = "connecting"
                                 /\ conns[c].pending}) <= 1

\* C12: a callback sends at most one "ready", only the one that resumes the
\* startup after the initial connection's Open, and the startup is resumed once.
C12_SingleReady ==
    [][/\ Count(toClient', "ready") <= 1
       /\ Count(toClient', "ready") = 1 =>
            /\ ev' = "Open" /\ evConn' = 1
            /\ phase = "awaiting" /\ phase' = "ready"
            /\ conns'[1].openSeen /\ settled' = "resolved"
       /\ phase # "awaiting" => phase' = phase]_vars

\* the startup's Open was acknowledged with "ready"
C12_Witness == ev = "Open" /\ evConn = 1 /\ toClient = <<"Open", "ready">>

\* C13: when forwarding a media frame to the current handle fails in a live
\* session, an error notice goes to the open client socket, the session stays
\* registered and not closing, and the handle stays what it was.
C13_SendFailureNotice ==
    [][(sendFailed' /\ ~isClosing) =>
         /\ readyState = "OPEN" =>
                /\ Count(toClient', "error") = 1
                /\ toClient'[Len(toClient')] = "error"
         /\ registered' /\ ~isClosing' /\ pingInterval'
         /\ readyState' = readyState /\ ~wsCloseCalled'
         /\ dgConnection' # 0
         /\ ev' = "media" => dgConnection' = dgConnection
         /\ ev' = "Open" => dgConnection' = evConn']_vars

\* a failed forward in a live session was answered with an error notice
C13_Witness ==
    /\ sendFailed /\ ev = "media" /\ toClient = <<"error">>
    /\ ~isClosing /\ registered /\ dgConnection # 0

\* C14: when a re-initialization fails, its frame is not sent upstream and the
\* session is left as it was (registered, not closing, client socket and
\* keepalive untouched); a media frame that finds no handle in a live session
\* starts a new attempt.
C14_ReinitFailureDropsFrame ==
    [][/\ (/\ evConn' > 1
           /\ conns[evConn'].pending
           /\ settled' = "rejected") =>
            /\ mediaTo' = 0 /\ ~sendFailed'
            /\ isClosing' = isClosing /\ registered' = registered
            /\ readyState' = readyState /\ ~wsCloseCalled'
            /\ pingInterval' = pingInterval
            /\ dgConnection' = dgConnection
       /\ (ev' = "media" /\ ~isClosing /\ dgConnection = 0) =>
            /\ nConns' = nConns + 1
            /\ conns'[nConns'].status = "connecting"
            /\ conns'[nConns'].pending]_vars

\* a re-initialization timed out in a live session, which stays live
C14_Witness ==
    /\ ev = "timeout" /\ evConn > 1 /\ settled = "rejected"
    /\ ~isClosing /\ registered /\ readyState = "OPEN" /\ pingInterval

\* C17: a sanitization failure in an upstream event handler sends nothing and
\* changes nothing else: on Open the connection's promise is not rejected and
\* the session is not terminated; on Close the handle is still cleared.
C17_SanitizeFailureContained ==
    [][sanFailed' =>
         /\ toClient' = <<>>
         /\ isClosing' = isClosing /\ registered' = registered
         /\ readyState' = readyState
         /\ ev' = "Open" => settled' # "rejected"
         /\ ev' = "Close" => dgConnection' # evConn']_vars

\* v holds, at some depth, a member with a sensitive name or a member or
\* element equal to the key
RECURSIVE Leaks(_, _)
Leaks(v, key) ==
    IF v.t = "obj"
    THEN \/ DOMAIN v.f \cap sensitiveFields # {}
         \/ \E k \in DOMAIN v.f : v.f[k] = Str(key) \/ Leaks(v.f[k], key)
    ELSE IF v.t = "arr"
    THEN \E i \in DOMAIN v.a : v.a[i] = Str(key) \/ Leaks(v.a[i], key)
    ELSE FALSE

\* every member of v that is neither sensitive by name nor equal to the key is
\* in w, and so on inside it
RECURSIVE Preserves(_, _, _)
Preserves(v, w, key) ==
    IF v.t = "obj"
    THEN /\ w.t = "obj"
         /\ \A k \in DOMAIN v.f \ sensitiveFields :
                v.f[k] # Str(key) =>
                    k \in DOMAIN w.f /\ Preserves(v.f[k], w.f[k], key)
    ELSE IF v.t = "arr"
    THEN /\ w.t = "arr"
         /\ DOMAIN w.a = DOMAIN v.a
         /\ \A i \in DOMAIN v.a :
                v.a[i] # Str(key) => Preserves(v.a[i], w.a[i], key)
    ELSE w = v

\* C15: the sanitized payload of an event holds, at no depth, a sensitive field
\* name or a value equal to the key the proxy is configured with
\* (getDeepgramKey), and every other field of the payload is still there.
C15_SanitizedHidesCredential ==
    (forwarded.kind \in OwnHandlerEvents /\ forwarded.out # Threw) =>
        /\ ~Leaks(forwarded.out, getDeepgramKey(keyConfig))
        /\ Preserves(payload, forwarded.out, getDeepgramKey(keyConfig))

\* C16: the payload of a transcript event is passed on unmodified, that of
\* every other event kind is passed on sanitized.
C16_TranscriptUnmodified ==
    /\ forwarded.kind = "Transcript" => forwarded.out = payload
    /\ (forwarded.kind \notin {"none", "Transcript"} /\ forwarded.out # Threw)
           => ~Leaks(forwarded.out, keyConfig.env)

\* the request was handed to the proxy's connection handler
Admitted(r) == r.stage \in {"upgraded", "closed"}
\* the request ended without an upgrade
Refused(r) == r.stage \in {"rejected", "aborted"}

\* C18: outside debug mode a request is upgraded only with a token that is
\* present and verified and a credit check that returned no error and
\* canUseService, and only if no error response was written to it; a request
\* that was refused has an error response with a code and a message and stays
\* refused.
C18_AdmittedOnlyIfVerified ==
    [][~DEBUG_MODE =>
         \A i \in RequestIds :
            /\ Admitted(requests'[i]) =>
                 /\ requests'[i].token = "present"
                 /\ requests'[i].verify = "ok"
                 /\ requests'[i].credit = "ok"
            /\ (~Admitted(requests[i]) /\ Admitted(requests'[i])) =>
                 requests'[i].errors = <<>>
            /\ Refused(requests'[i]) =>
                 /\ requests'[i].errors # <<>>
                 /\ \A k \in DOMAIN requests'[i].errors :
                        /\ requests'[i].errors[k].code \in 400..599
                        /\ requests'[i].errors[k].message # ""
            /\ Refused(requests[i]) => requests'[i].stage = requests[i].stage]_vars

\* one request was upgraded after both checks, another refused for its credits
C18_Witness ==
    /\ ~DEBUG_MODE
    /\ \E i, j \in RequestIds :
          /\ requests[i].stage = "upgraded" /\ requests[i].credit = "ok"
          /\ requests[j].stage = "rejected" /\ requests[j].credit = "insufficient"
          /\ requests[j].errors = <<[code |-> 403, message |-> "Insufficient credits"]>>

\* C19: the code of the error response follows from the cause: 401 for a
\* missing, expired, revoked or malformed token, 403 for insufficient credits,
\* 500 for a credit check that failed and for other server errors.
C19_CodeByCause ==
    ~DEBUG_MODE =>
        \A i \in RequestIds :
            LET r == requests[i]
            IN  (r.stage = "rejected" /\ ~r.destroyed) =>
                  /\ Len(r.errors) = 1
                  /\ r.token = "missing" => r.errors[1].code = 401
                  /\ r.token = "unparsable" => r.errors[1].code = 500
                  /\ r.verify \in {"auth/id-token-expired", "auth/id-token-revoked",
                                   "auth/argument-error"} => r.errors[1].code = 401
                  /\ r.credit = "insufficient" => r.errors[1].code = 403
                  /\ r.credit \in {"error", "throws"} => r.errors[1].code = 500

\* the calls debug mode is to make none of
CheckedCalls ==
    {"verifyIdToken", "checkUserCredits", "bufferCreditUpdate", "flushCredits",
     "flushAllCredits"}

\* C20: in debug mode every request that arrives is upgraded as "debug-user"
\* with no token verification and no credit check, and no callback (upgrade,
\* usage update, shutdown) calls the identity provider or the ledger.
C20_DebugBypass ==
    DEBUG_MODE =>
        /\ \A i \in RequestIds :
              requests[i].stage # "none" =>
                 /\ Admitted(requests[i])
                 /\ requests[i].userId = "debug-user"
                 /\ requests[i].verify = "none"
                 /\ requests[i].credit = "none"
        /\ \A k \in DOMAIN calls : calls[k].op \notin CheckedCalls
        /\ update.stage = "idle"
        /\ shutdown # "flushing"

\* debug mode: a request was upgraded, a usage update was skipped and the
\* shutdown has closed the server
C20_Witness ==
    /\ DEBUG_MODE
    /\ \E i \in RequestIds : requests[i].stage = "closed" /\ requests[i].userId = "debug-user"
    /\ update.logged = "skipped"
    /\ shutdown = "closed"

\* position of the first call of this operation by the last callback (0: none)
FirstCall(op) ==
    IF \E k \in DOMAIN calls : calls[k].op = op
    THEN CHOOSE k \in DOMAIN calls :
            calls[k].op = op /\ \A j \in DOMAIN calls : calls[j].op = op => k <= j
    ELSE 0

\* C21: on the shutdown signal the live sessions are swept first: the ledger's
\* flushAll is invoked only after the clients were closed, by the same callback
\* or an earlier one.
C21_SweepBeforeFlushAll ==
    [][LET flush == FirstCall("flushAllCredits")'
           sweep == FirstCall("closeClients")'
       IN  flush # 0 => (shutdown = "closed" \/ (sweep # 0 /\ sweep < flush))]_vars

C24_TerminatingAbsorbing ==
    [][isClosing =>
         /\ isClosing'
         /\ dgConnection' = 0
         /\ ~registered'
         /\ ~pingInterval']_vars

\* teardown has run: keepalive stopped, no handle, session out of the registry
TornDown == isClosing /\ ~pingInterval /\ dgConnection = 0 /\ ~registered

\* C25: with the timers firing, a session whose client connection closes or
\* fails is eventually torn down, also when that happens while the session is
\* waiting for its first upstream connection.
C25_ClosedEventuallyTornDown == (ev \in {"close", "error"}) ~> TornDown

\* C26: with the timers firing, every upstream connect attempt settles: the
\* promise a start or a message handler awaits is resolved or rejected,
\* whatever the upstream sends and whether or not the session closes meanwhile.
C26_ConnectSettles == \A c \in ConnIds : conns[c].pending ~> ~conns[c].pending

\* a re-initialization begun before the session closed was settled afterwards,
\* by its connect timeout
C26_Witness ==
    /\ isClosing /\ ev = "timeout" /\ evConn > 1 /\ settled = "rejected"
    /\ \A c \in ConnIds : ~conns[c].pending

\* C27: the media frames are sent upstream in the order of their arrival: a
\* frame that waited for its re-initialized connection is not sent after a
\* frame that arrived later.
C27_MediaInArrivalOrder ==
    [][(ev' = "Open" /\ evConn' > 1 /\ conns[evConn'].pending /\ mediaTo' # 0)
          => ~conns[evConn'].overtaken]_vars

\* C28: a frame that parses is not sent upstream and starts no
\* re-initialization, and unless it is a stop command it leaves the handle,
\* the alive flag, the closing flag and the registration as they were.
C28_ParsedFrameIsNotMedia ==
    [][(ev' \in Frames /\ parses(ev')) =>
         /\ mediaTo' = 0
         /\ nConns' = nConns
         /\ ev' # "stop" =>
              /\ dgConnection' = dgConnection
              /\ isAlive' = isAlive
              /\ isClosing' = isClosing
              /\ registered' = registered]_vars

\* the sessions whose connection handler has been called
Accepted == {i \in SessionIds : sessions[i].phase # "absent"}

\* C22: when the server stops listening on shutdown, terminateConnection has
\* been invoked on every session that is in the registry, also on one that is
\* still waiting for its first upstream connection.
C22_ShutdownTerminatesAll ==
    [][(listening /\ ~listening') =>
          \A i \in SessionIds : sessions[i].registered => sessions'[i].isClosing]_vars

\* C29: a callback of one session leaves the handle, the alive flag, the
\* closing flag and the client socket of every other session as they were; and
\* while a session waits for its upstream connection the others' callbacks run.
C29_SessionsIsolated ==
    [][\A i \in SessionIds :
          (actor' # 0 /\ actor' # i) =>
              /\ sessions'[i].dgConnection = sessions[i].dgConnection
              /\ sessions'[i].isAlive = sessions[i].isAlive
              /\ sessions'[i].isClosing = sessions[i].isClosing
              /\ sessions'[i].readyState = sessions[i].readyState]_vars

\* while the first session still waits for its startup connection, the second
\* one has become ready and has had a stop command processed
C29_Witness ==
    /\ sessions[1].phase = "awaiting" /\ ~sessions[1].isClosing
    /\ sessions[1].isAlive /\ sessions[1].readyState = "OPEN"
    /\ actor = 2
    /\ sessions[2].phase = "ready" /\ ~sessions[2].isClosing
    /\ sessions[2].dgConnection = 0
    /\ sessions[2].conns[1].status = "finished"

\* the accepted sessions drew different clientIds
DistinctIds == \A i, j \in Accepted : i # j => clientId[i] # clientId[j]

\* C30: with distinct clientIds, getConnectionCount is the number of sessions
\* accepted and not torn down: a session is in the registry from its
\* acceptance on, ready or not, until its teardown runs.
C30_CountIsLiveSessions ==
    DistinctIds =>
        /\ getConnectionCount = Cardinality({i \in Accepted : ~sessions[i].isClosing})
        /\ \A i \in Accepted :
              clientId[i] \in activeConnections <=> ~sessions[i].isClosing

\* two sessions were accepted; the first has been torn down, the second still
\* waits for its upstream connection and is the one counted
C30_Witness ==
    /\ Accepted = {1, 2} /\ DistinctIds
    /\ sessions[1].isClosing
    /\ sessions[2].phase = "awaiting" /\ ~sessions[2].isClosing
    /\ getConnectionCount = 1

\* the callback that just ran called this ledger operation
Called(op) == \E k \in DOMAIN calls : calls[k].op = op

\* C31: outside debug mode a usage update makes one bufferCreditUpdate call with
\* its userId and duration; once that call has completed, flushCredits for the
\* same userId is called if and only if the update is final; a failed ledger
\* call ends the handler in its catch, with no further call and the server
\* running on.
C31_LedgerCallsPerUpdate ==
    [][~DEBUG_MODE =>
         /\ (update.stage = "idle" /\ update'.stage # "idle") =>
               /\ update'.stage = "buffering"
               /\ calls' = <<Call("bufferCreditUpdate", update'.userId, update'.duration)>>
         /\ (update.stage = "buffering" /\ update' # update) =>
               /\ update'.stage = "flushing" =>
                     /\ update.isClosed
                     /\ calls' = <<Call("flushCredits", update.userId, 0)>>
               /\ update'.stage # "flushing" =>
                     /\ update'.stage = "idle" /\ calls' = <<>>
                     /\ update'.logged \in {"buffered", "failed"}
                     /\ update'.logged = "buffered" => ~update.isClosed
               /\ shutdown' = shutdown
         /\ (update.stage = "flushing" /\ update' # update) =>
               /\ update'.stage = "idle" /\ calls' = <<>>
               /\ update'.logged \in {"flushed", "failed"}
               /\ shutdown' = shutdown
         /\ Called("bufferCreditUpdate")' => (update.stage = "idle" /\ update' # update)
         /\ Called("flushCredits")' => (update.stage = "buffering" /\ update' # update)]_vars

\* a final update was buffered, then flushed
C31_Witness == ~DEBUG_MODE /\ update.logged = "flushed"

\* C32: a Close event of an upstream connection that is not the current handle
\* leaves the current handle as it is.
C32_StaleCloseKeepsHandle ==
    [][(ev' = "Close" /\ evConn' # dgConnection) => dgConnection' = dgConnection]_vars

\* a connection finished by a stop command closed after its replacement had
\* become the current handle
C32_Witness ==
    /\ ev = "Close" /\ evConn # 0 /\ dgConnection > evConn
    /\ conns[evConn].status = "closed" /\ conns[dgConnection].status = "open"

\* C33: an upstream connection whose connect timeout fired is never the
\* current handle, whenever its Open arrives.
C33_TimedOutNeverHandle ==
    dgConnection # 0 => ~conns[dgConnection].timedOut

\* C34: when a stop command was the last frame and the upstream events still
\* pending after it have been delivered, the session has no current handle;
\* here the Open of a re-initialization is delivered right after the stop and
\* leaves no connection unanswered.
C34_StopLeavesNoHandle ==
    [][(/\ ev = "stop" /\ ev' = "Open"
        /\ \A c \in ConnIds : conns'[c].status # "connecting")
          => dgConnection' = 0]_vars

\* C37: once the teardown has run the keepalive interval is cleared and its
\* callback never runs again: no ping, no change of the alive flag and no
\* teardown come from it, whichever way the session ended.
C37_NoTickAfterTeardown ==
    [][isClosing => /\ ~pingInterval
                    /\ ev' # "tick"
                    /\ "ping" \notin {toClient'[k] : k \in DOMAIN toClient'}]_vars

\* a session torn down by its failed startup saw its client socket close
\* afterwards, no tick having run in between
C37_Witness ==
    /\ isClosing /\ phase = "failed" /\ ~pingInterval
    /\ ev = "close" /\ readyState = "CLOSED" /\ ~ticked

\* C35: sendPreUpgradeError writes only to a socket that has not been upgraded:
\* no socket error after the upgrade adds an HTTP error response.
C35_NoHttpErrorAfterUpgrade ==
    [][\A i \in RequestIds :
          requests[i].stage = "upgraded" => requests'[i].errors = requests[i].errors]_vars

\* C36: a 401 is sent only for a token that is missing or failed verification;
\* a request whose token was verified is answered, if rejected, 403 or 500,
\* also when checkUserCredits throws.
C36_Only401ForToken ==
    ~DEBUG_MODE =>
        \A i \in RequestIds :
            \A k \in DOMAIN requests[i].errors :
                /\ requests[i].errors[k].code = 401 =>
                      \/ requests[i].token = "missing"
                      \/ requests[i].verify \notin {"none", "ok"}
                /\ requests[i].verify = "ok" => requests[i].errors[k].code \in {403, 500}

\* C38: sanitizing is idempotent: the payload a handler got from
\* sanitizeEventData, sanitized once more, is an equal payload.
C38_SanitizeIdempotent ==
    (forwarded.kind \in OwnHandlerEvents /\ forwarded.out # Threw) =>
        sanitizeEventData(forwarded.out, keyConfig) = forwarded.out
====
